---------------------------- MODULE Spec2Model ----------------------------
(***************************************************************************)
(* Archloom CRM backend: the lead ("customer") directory.                  *)
(*                                                                         *)
(* The store is the `customers` table (models.py, CustomerModel), the      *)
(* operations are the request handlers of routers/registration.py and the  *)
(* reclaim job of routers/cron_job.py.  Dates are day numbers (an integer  *)
(* per calendar day), optional values are sequences of length at most one  *)
(* (<<>> is Python's None / SQL NULL, <<v>> is the value v), and a stored  *)
(* identifier "ARC<digits>" is kept as its characters after the constant   *)
(* prefix "ARC": the sequence of its decimal digits.                       *)
(***************************************************************************)
EXTENDS Integers, Sequences, FiniteSets, TLC

VARIABLES
    customers,   \* the rows of table `customers`, in insertion (primary key) order
    today,       \* the calendar day the server's clock shows
    req,         \* the last request handled: its operation, caller and arguments
    resp,        \* the response to it
    reqs         \* create requests in flight: what each has read and built so far

vars == <<customers, today, req, resp, reqs>>

---------------------------------------------------------------------------
(* Bounds of the model *)

MaxLeads == 2
MaxDay == 1
MaxSeqCreates == 1002
NumRequests == 3

(* Program constants *)

HoldDays == 12
GraphDays == 30
PadWidth == 3
PadLimit == 1000

---------------------------------------------------------------------------
(* Optional values *)

None == <<>>
Some(v) == <<v>>
IsNone(o) == o = <<>>
Val(o) == o[1]

(* A null sent for a string-typed field (JSON null, Python None). *)
NullStr == "<null>"

---------------------------------------------------------------------------
(* Users: the rows of table `user`.  Only id and role matter here. *)

Admin == 1
Employees == {2, 3}
Users == {Admin} \cup Employees
role(u) == IF u = Admin THEN "admin" ELSE "employee"

---------------------------------------------------------------------------
(* Identifier allocator (utils.py) *)

RECURSIVE Digits(_)
Digits(n) == IF n < 10 THEN <<n>> ELSE Append(Digits(n \div 10), n % 10)

RECURSIVE ZeroPad(_, _)
ZeroPad(ds, w) == IF Len(ds) >= w THEN ds ELSE ZeroPad(<<0>> \o ds, w)

\* f"ARC{n:03d}" if n < 1000 else f"ARC{n}"
_format_arc(n) == IF n < PadLimit THEN ZeroPad(Digits(n), PadWidth) ELSE Digits(n)

\* int(m.group(1)) for the digits matched by ^ARC(\d+)$
RECURSIVE ParseInt(_)
ParseInt(ds) ==
    IF Len(ds) = 0 THEN 0
    ELSE 10 * ParseInt(SubSeq(ds, 1, Len(ds) - 1)) + ds[Len(ds)]

\* String order of two identifiers, as ORDER BY customer_id compares them:
\* character by character, a proper prefix first.
RECURSIVE StrLess(_, _)
StrLess(a, b) ==
    IF Len(b) = 0 THEN FALSE
    ELSE IF Len(a) = 0 THEN TRUE
    ELSE IF a[1] # b[1] THEN a[1] < b[1]
    ELSE StrLess(Tail(a), Tail(b))

StrMax(a, b) == IF StrLess(a, b) THEN b ELSE a

\* The greatest customer_id of rows lo..hi in string order (lo <= hi).
RECURSIVE MaxCodeIn(_, _, _)
MaxCodeIn(rows, lo, hi) ==
    IF lo = hi THEN rows[lo].customer_id
    ELSE LET mid == (lo + hi) \div 2
         IN  StrMax(MaxCodeIn(rows, lo, mid), MaxCodeIn(rows, mid + 1, hi))

\* SELECT customer_id ... ORDER BY customer_id DESC LIMIT 1, .first()
max_code(rows) == IF Len(rows) = 0 THEN None ELSE Some(MaxCodeIn(rows, 1, Len(rows)))

_next_customer_id(rows) ==
    LET mc == max_code(rows)
    IN  IF IsNone(mc) THEN _format_arc(1)
        ELSE _format_arc(ParseInt(Val(mc)) + 1)

---------------------------------------------------------------------------
(* Rows and responses *)

\* The columns of CustomerModel (models.py).  email and address are plain
\* strings handled on every path exactly as fullname is, and are not kept.
CustomerFields ==
    {"customer_id", "fullname", "mobile", "reg_date", "note", "status",
     "hold_since", "assigned_to"}

user_name(u) == IF u = Admin THEN "admin" ELSE IF u = 2 THEN "emp2" ELSE "emp3"

\* add_user_name: the row's columns plus the assignee's name (None when the
\* row is unassigned or names no user).
add_user_name(c) ==
    [customer_id |-> c.customer_id, fullname |-> c.fullname, mobile |-> c.mobile,
     reg_date |-> c.reg_date, note |-> c.note, status |-> c.status,
     hold_since |-> c.hold_since, assigned_to |-> c.assigned_to,
     assigned_to_name |->
        IF ~IsNone(c.assigned_to) /\ Val(c.assigned_to) \in Users
        THEN Some(user_name(Val(c.assigned_to))) ELSE None]

Response(op, caller, code, detail, body) ==
    [op |-> op, caller |-> caller, code |-> code, detail |-> detail, body |-> body]

NoResponse == Response("none", 0, 0, "", <<>>)

Request(op, caller, args) == [op |-> op, caller |-> caller, args |-> args]

NoRequest == Request("none", 0, <<>>)

\* A filter that restricts nobody.
filter_stmt_open(caller, c) == TRUE

\* filter_customers_by_user(current_user)(stmt): the rows a caller's
\* statements range over.
filter_stmt(caller, c) ==
    role(caller) = "admin" \/ c.assigned_to = Some(caller)

\* The indexes (primary keys) of the rows satisfying P, ascending.
RECURSIVE SelectFrom(_, _, _)
SelectFrom(rows, P(_), i) ==
    IF i > Len(rows) THEN <<>>
    ELSE IF P(rows[i]) THEN <<i>> \o SelectFrom(rows, P, i + 1)
    ELSE SelectFrom(rows, P, i + 1)

Select(rows, P(_)) == SelectFrom(rows, P, 1)

Reverse(s) == [i \in 1..Len(s) |-> s[Len(s) + 1 - i]]

Take(s, n) == SubSeq(s, 1, IF n < Len(s) THEN n ELSE Len(s))
Drop(s, n) == SubSeq(s, n + 1, Len(s))

\* The position in idx of the row with the greatest customer_id.
RECURSIVE ArgMaxCode(_, _, _, _)
ArgMaxCode(rows, idx, k, best) ==
    IF k > Len(idx) THEN best
    ELSE IF StrLess(rows[idx[best]].customer_id, rows[idx[k]].customer_id)
         THEN ArgMaxCode(rows, idx, k + 1, k)
         ELSE ArgMaxCode(rows, idx, k + 1, best)

RemoveAt(s, k) == SubSeq(s, 1, k - 1) \o SubSeq(s, k + 1, Len(s))

\* ORDER BY customer_id DESC over the rows with indexes idx.
RECURSIVE OrderByCodeDesc(_, _)
OrderByCodeDesc(rows, idx) ==
    IF Len(idx) = 0 THEN <<>>
    ELSE LET k == ArgMaxCode(rows, idx, 2, 1)
         IN  <<idx[k]>> \o OrderByCodeDesc(rows, RemoveAt(idx, k))

Rows(rows, idx) == [k \in 1..Len(idx) |-> rows[idx[k]]]
WithNames(rs) == [k \in 1..Len(rs) |-> add_user_name(rs[k])]

---------------------------------------------------------------------------
(* The session's commit: the table's constraints *)

\* A table without the unique constraint accepts any row.
UniqueOk_unconstrained(rows, c) == TRUE

\* uq_customers_customer_id: no stored row has the new row's customer_id.
UniqueOk(rows, c) == \A i \in 1..Len(rows) : rows[i].customer_id # c.customer_id

\* The columns declared without Optional (or with nullable=False) that a
\* request can set. A NULL in one of them fails the commit.
NotNullOk(c) == c.fullname # NullStr /\ c.status # NullStr /\ ~IsNone(c.reg_date)

---------------------------------------------------------------------------
(* POST /customers *)

\* A row assigned to whomever the payload names, whoever the caller is.
build_customer_as_requested(rows, caller, payload) ==
    [customer_id |-> _next_customer_id(rows),
     fullname    |-> payload.fullname,
     mobile      |-> payload.mobile,
     reg_date    |-> payload.reg_date,
     note        |-> None,
     status      |-> "ACTIVE",
     hold_since  |-> None,
     assigned_to |->
        IF ~IsNone(payload.assigned_to) THEN payload.assigned_to ELSE Some(caller)]

\* Lines 30-55: the identifier read from the store and the row built from the
\* payload.  A keyword the model has no column for (notes) is not stored.
build_customer(rows, caller, payload) ==
    [customer_id |-> _next_customer_id(rows),
     fullname    |-> payload.fullname,
     mobile      |-> payload.mobile,
     reg_date    |-> payload.reg_date,
     note        |-> None,
     status      |-> "ACTIVE",
     hold_since  |-> None,
     assigned_to |->
        IF role(caller) = "admin" /\ ~IsNone(payload.assigned_to)
                                  /\ Val(payload.assigned_to) # 0
        THEN payload.assigned_to ELSE Some(caller)]

\* A commit whose failure leaves the new row behind.
commit_customer_no_rollback(rows, caller, c) ==
    IF UniqueOk(rows, c) /\ NotNullOk(c)
    THEN [rows |-> Append(rows, c),
          resp |-> Response("create", caller, 200, "", <<add_user_name(c)>>)]
    ELSE [rows |-> Append(rows, c),
          resp |-> Response("create", caller, 500, "Failed to create customer", <<>>)]

\* Lines 57-69: add, commit, refresh; any exception rolls back and is
\* reported as 500.
commit_customer(rows, caller, c) ==
    IF UniqueOk(rows, c) /\ NotNullOk(c)
    THEN [rows |-> Append(rows, c),
          resp |-> Response("create", caller, 200, "", <<add_user_name(c)>>)]
    ELSE [rows |-> rows,
          resp |-> Response("create", caller, 500, "Failed to create customer", <<>>)]

create_customer(rows, caller, payload) ==
    commit_customer(rows, caller, build_customer(rows, caller, payload))

---------------------------------------------------------------------------
(* PATCH /customer/{customer_id} *)

\* CustomerUpdateSchema: what the request body must satisfy before the
\* handler runs.  status is any string or null; mobile, when given and not
\* empty, must clean to ten digits.
CustomerUpdateSchema(payload) ==
    "mobile" \in DOMAIN payload =>
        (IsNone(payload.mobile) \/ Len(Val(payload.mobile)) = 10)

\* An allow-list that lets a descriptive field through.
allowed_fields_wide == {"notes", "status", "hold_since", "fullname"}

allowed_fields == {"notes", "status", "hold_since"}

Restrict(f, keys) == [k \in DOMAIN f \cap keys |-> f[k]]
Put(f, key, v) == [k \in DOMAIN f \cup {key} |-> IF k = key THEN v ELSE f[k]]

\* The fields CustomerUpdateSchema declares; a body's other keys are ignored
\* when the body is parsed.
UpdateSchemaFields ==
    {"fullname", "reg_date", "mobile", "email", "address", "notes", "status",
     "hold_since", "assigned_to"}

\* The fields written when a hold date the request supplies is kept.
update_data_keep_supplied(caller, payload) ==
    LET d0 == Restrict(payload, UpdateSchemaFields)
        d1 == IF role(caller) # "admin" THEN Restrict(d0, allowed_fields)
              ELSE d0
        d2 == IF /\ "status" \in DOMAIN d1 /\ d1.status \in {"ACTIVE", "CLOSED"}
                 /\ "hold_since" \notin DOMAIN d1
              THEN Put(d1, "hold_since", None) ELSE d1
    IN  IF role(caller) # "admin" THEN Restrict(d2, DOMAIN d2 \ {"assigned_to"})
        ELSE d2

\* Lines 195-209: the fields the handler will write.
update_data(caller, payload) ==
    LET d0 == Restrict(payload, UpdateSchemaFields)
        d1 == IF role(caller) # "admin" THEN Restrict(d0, allowed_fields)
              ELSE d0
        d2 == IF "status" \in DOMAIN d1 /\ d1.status \in {"ACTIVE", "CLOSED"}
              THEN Put(d1, "hold_since", None) ELSE d1
    IN  IF role(caller) # "admin" THEN Restrict(d2, DOMAIN d2 \ {"assigned_to"})
        ELSE d2

\* Lines 212-231: the row after the loop over update_data.  setattr writes a
\* column; the notes branch reads or writes the attribute `notes`.
apply_updates(c, caller, data) ==
    [f \in DOMAIN c |->
        IF f \notin DOMAIN data THEN c[f]
        ELSE IF f = "notes"
             THEN IF role(caller) # "admin" THEN c[f] \o data[f] ELSE data[f]
             ELSE data[f]]

\* The notes branch raises: CustomerModel has no attribute `notes`.
notes_raises(data) == "notes" \in DOMAIN data /\ "notes" \notin CustomerFields

update_customer_partial(rows, caller, customer_id, payload) ==
    LET idx == Select(rows, LAMBDA c : filter_stmt(caller, c)
                                       /\ customer_id.prefix = "ARC"
                                       /\ c.customer_id = customer_id.digits)
    IN  IF ~CustomerUpdateSchema(payload)
        THEN [rows |-> rows,
              resp |-> Response("update", caller, 422, "validation error", <<>>)]
        ELSE IF Len(idx) = 0
        THEN [rows |-> rows,
              resp |-> Response("update", caller, 404,
                                "Customer not found or access denied", <<>>)]
        ELSE LET i    == idx[1]
                 data == update_data(caller, payload)
                 c2   == apply_updates(rows[i], caller, data)
             IN  IF Len(idx) > 1 \/ notes_raises(data) \/ ~NotNullOk(c2)
                 THEN [rows |-> rows,
                       resp |-> Response("update", caller, 500,
                                         "Failed to update customer", <<>>)]
                 ELSE [rows |-> [rows EXCEPT ![i] = c2],
                       resp |-> Response("update", caller, 200, "",
                                         <<add_user_name(c2)>>)]

---------------------------------------------------------------------------
(* The read handlers *)

DefaultFilterLimit == 100

\* str.upper() on the letters before an identifier's digits.
Upper(prefix) == IF prefix \in {"arc", "Arc", "ARC"} THEN "ARC" ELSE prefix

\* GET /customers
get_customers(rows, caller, limit, offset) ==
    LET idx == OrderByCodeDesc(rows, Select(rows, LAMBDA c : filter_stmt(caller, c)))
    IN  Response("list", caller, 200, "",
                 WithNames(Rows(rows, Take(Drop(idx, offset), limit))))

\* GET /customer/{search_data}: search_data is the string prefix + digits.
search_customer_by_id_or_mobile(rows, caller, search_data) ==
    LET byCode   == Select(rows, LAMBDA c : filter_stmt(caller, c)
                                            /\ c.customer_id = search_data.digits)
        byMobile == Select(rows, LAMBDA c : filter_stmt(caller, c)
                                            /\ c.mobile = Some(search_data.digits))
    IN  IF Upper(search_data.prefix) = "ARC" /\ Len(search_data.digits) >= 1
        THEN Response("search", caller, 200, "", WithNames(Rows(rows, Reverse(byCode))))
        ELSE IF Len(search_data.digits) = 10
        THEN Response("search", caller, 200, "", WithNames(Rows(rows, Reverse(byMobile))))
        ELSE Response("search", caller, 200, "", <<>>)

\* User.name ILIKE %pattern%, .first(): the first user whose name contains it.
name_matches(u, pattern) ==
    pattern = user_name(u) \/ (pattern = "emp" /\ u \in Employees)

first_user_like(pattern) ==
    LET m == {u \in Users : name_matches(u, pattern)}
    IN  IF m = {} THEN None ELSE Some(CHOOSE u \in m : \A v \in m : u <= v)

\* GET /customers/filter
filter_customers(rows, caller, date_from, date_to, status_, assigned_to_name) ==
    LET assignee == IF IsNone(assigned_to_name) THEN None
                    ELSE first_user_like(Val(assigned_to_name))
        idx == Select(rows, LAMBDA c :
                   /\ filter_stmt(caller, c)
                   /\ IsNone(status_) \/ c.status = Val(status_)
                   /\ IsNone(date_from) \/ Val(c.reg_date) >= Val(date_from)
                   /\ IsNone(date_to) \/ Val(c.reg_date) <= Val(date_to)
                   /\ IsNone(assigned_to_name) \/ c.assigned_to = assignee)
        unfiltered == IsNone(date_from) /\ IsNone(date_to) /\ IsNone(status_)
                      /\ IsNone(assigned_to_name)
    IN  IF ~IsNone(assigned_to_name) /\ role(caller) # "admin"
        THEN Response("filter", caller, 403,
                      "You are not authorized to filter by assigned user", <<>>)
        ELSE IF ~IsNone(assigned_to_name) /\ IsNone(assignee)
        THEN Response("filter", caller, 404, "Assigned user not found", <<>>)
        ELSE Response("filter", caller, 200, "",
                      WithNames(Rows(rows, IF unfiltered
                                           THEN Take(Reverse(idx), DefaultFilterLimit)
                                           ELSE Reverse(idx))))

\* A lookup that answers 403 for a row that exists outside the caller's scope.
find_customer_by_id_leaky(rows, caller, customer_id) ==
    LET all == Select(rows, LAMBDA c : Upper(customer_id.prefix) = "ARC"
                                       /\ c.customer_id = customer_id.digits)
        idx == Select(rows, LAMBDA c : filter_stmt(caller, c)
                                       /\ Upper(customer_id.prefix) = "ARC"
                                       /\ c.customer_id = customer_id.digits)
    IN  IF Len(idx) = 0 /\ Len(all) > 0
        THEN Response("find", caller, 403, "Access denied", <<>>)
        ELSE IF Len(idx) = 0
        THEN Response("find", caller, 404, "Customer not found or access denied", <<>>)
        ELSE Response("find", caller, 200, "", <<rows[idx[1]]>>)

\* GET /find/{customer_id}
find_customer_by_id(rows, caller, customer_id) ==
    LET idx == Select(rows, LAMBDA c : filter_stmt(caller, c)
                                       /\ Upper(customer_id.prefix) = "ARC"
                                       /\ c.customer_id = customer_id.digits)
    IN  IF Len(idx) = 0
        THEN Response("find", caller, 404, "Customer not found or access denied", <<>>)
        ELSE IF Len(idx) > 1
        THEN Response("find", caller, 500, "Failed to find customer", <<>>)
        ELSE Response("find", caller, 200, "", <<rows[idx[1]]>>)

Count(rows, P(_)) == Len(Select(rows, P))

\* GET /customers/count_and_graph: the statements are built on
\* select(func.count()) directly, over the whole table.
customers_count_and_graph(rows, caller, now) ==
    LET active(d) == Count(rows, LAMBDA c : c.status = "ACTIVE" /\ c.reg_date = Some(d))
        onhold(d) == Count(rows, LAMBDA c : c.status = "HOLD" /\ c.hold_since = Some(d))
        start_day == now - (GraphDays - 1)
    IN  Response("count_and_graph", caller, 200, "",
          <<[date |-> now,
             total_active_today  |-> active(now),
             total_on_hold_today |-> onhold(now),
             dates_x_axis  |-> [i \in 1..GraphDays |-> start_day + (i - 1)],
             active_y_axis |-> [i \in 1..GraphDays |-> active(start_day + (i - 1))],
             onhold_y_axis |-> [i \in 1..GraphDays |-> onhold(start_day + (i - 1))]]>>)

---------------------------------------------------------------------------
(* GET /cron/auto-activate *)

Expired(c, now) ==
    c.status = "HOLD" /\ ~IsNone(c.hold_since) /\ Val(c.hold_since) <= now - HoldDays

\* A statement that releases one expired row per run, the first.
reclaim_query_first_only(rows, now) ==
    LET idx == {i \in 1..Len(rows) : Expired(rows[i], now)}
    IN  IF idx = {} THEN rows
        ELSE LET k == CHOOSE i \in idx : \A j \in idx : i <= j
             IN  [rows EXCEPT ![k] =
                     [rows[k] EXCEPT !.status = "ACTIVE", !.hold_since = None]]

\* The UPDATE statement of lines 17-23 applied to the table.  A NULL
\* hold_since satisfies no comparison.
reclaim_query(rows, now) ==
    [i \in 1..Len(rows) |->
        IF Expired(rows[i], now)
        THEN [rows[i] EXCEPT !.status = "ACTIVE", !.hold_since = None]
        ELSE rows[i]]

\* database.get_session is a generator function (it yields the session), so
\* the object the job gets by calling it has close() but neither execute()
\* nor commit() nor rollback().
session_methods == {"close"}

\* Lines 14-36.  db.execute raises when db has no such method; the handler's
\* except clause then calls db.rollback(), which raises out of the handler.
auto_activate(rows, now, authorized) ==
    IF ~authorized
    THEN [rows |-> rows, resp |-> Response("auto_activate", 0, 401, "Unauthorized", <<>>)]
    ELSE IF "execute" \in session_methods /\ "commit" \in session_methods
    THEN [rows |-> reclaim_query(rows, now),
          resp |-> Response("auto_activate", 0, 200, "Hold leads auto-updated", <<>>)]
    ELSE IF "rollback" \in session_methods
    THEN [rows |-> rows, resp |-> Response("auto_activate", 0, 200, "error", <<>>)]
    ELSE [rows |-> rows,
          resp |-> Response("auto_activate", 0, 500, "Internal Server Error", <<>>)]

---------------------------------------------------------------------------
(* The state machine *)

IdleRequest == [pc |-> "idle", caller |-> 0, customer |-> None, code |-> 0]

\* An empty table, no request made yet.  The payloads below carry dates on
\* both sides of day 0, the day the clock starts at.
Init ==
    /\ customers = <<>>
    /\ today = 0
    /\ req = NoRequest
    /\ resp = NoResponse
    /\ reqs = [r \in 1..NumRequests |-> IdleRequest]

\* POST /customers, run without interleaving.
Create(caller, payload, cap) ==
    /\ Len(customers) < cap
    /\ LET out == create_customer(customers, caller, payload)
       IN  customers' = out.rows /\ resp' = out.resp
    /\ req' = Request("create", caller, [payload |-> payload])
    /\ UNCHANGED <<today, reqs>>

\* PATCH /customer/{customer_id}
Update(caller, customer_id, payload) ==
    /\ LET out == update_customer_partial(customers, caller, customer_id, payload)
       IN  customers' = out.rows /\ resp' = out.resp
    /\ req' = Request("update", caller, [customer_id |-> customer_id, payload |-> payload])
    /\ UNCHANGED <<today, reqs>>

List(caller, limit, offset) ==
    /\ resp' = get_customers(customers, caller, limit, offset)
    /\ req' = Request("list", caller, [limit |-> limit, offset |-> offset])
    /\ UNCHANGED <<customers, today, reqs>>

Search(caller, search_data) ==
    /\ resp' = search_customer_by_id_or_mobile(customers, caller, search_data)
    /\ req' = Request("search", caller, [search_data |-> search_data])
    /\ UNCHANGED <<customers, today, reqs>>

Filter(caller, date_from, date_to, status_, assigned_to_name) ==
    /\ resp' = filter_customers(customers, caller, date_from, date_to, status_,
                                assigned_to_name)
    /\ req' = Request("filter", caller,
                      [date_from |-> date_from, date_to |-> date_to,
                       status |-> status_, assigned_to_name |-> assigned_to_name])
    /\ UNCHANGED <<customers, today, reqs>>

Find(caller, customer_id) ==
    /\ resp' = find_customer_by_id(customers, caller, customer_id)
    /\ req' = Request("find", caller, [customer_id |-> customer_id])
    /\ UNCHANGED <<customers, today, reqs>>

Report(caller) ==
    /\ resp' = customers_count_and_graph(customers, caller, today)
    /\ req' = Request("count_and_graph", caller, <<>>)
    /\ UNCHANGED <<customers, today, reqs>>

\* GET /cron/auto-activate
Reclaim(authorized) ==
    /\ LET out == auto_activate(customers, today, authorized)
       IN  customers' = out.rows /\ resp' = out.resp
    /\ req' = Request("auto_activate", 0, [authorized |-> authorized])
    /\ UNCHANGED <<today, reqs>>

\* Midnight passes.
Tick ==
    /\ today < MaxDay
    /\ today' = today + 1
    /\ UNCHANGED <<customers, req, resp, reqs>>

\* POST /customers as concurrent requests run it: request r reads the
\* greatest identifier and builds its row (lines 30-55) ...
BeginCreate(r, caller, payload) ==
    /\ reqs[r].pc = "idle"
    /\ reqs' = [reqs EXCEPT ![r] =
                  [pc |-> "built", caller |-> caller,
                   customer |-> Some(build_customer(customers, caller, payload)),
                   code |-> 0]]
    /\ UNCHANGED <<customers, today, req, resp>>

\* ... and later adds and commits it (lines 57-69).
CommitCreate(r) ==
    /\ reqs[r].pc = "built"
    /\ LET out == commit_customer(customers, reqs[r].caller, Val(reqs[r].customer))
       IN  /\ customers' = out.rows
           /\ resp' = out.resp
           /\ reqs' = [reqs EXCEPT ![r].pc = "done", ![r].code = out.resp.code]
    /\ req' = Request("create", reqs[r].caller, [request |-> r])
    /\ UNCHANGED today

---------------------------------------------------------------------------
(* Inputs *)

Mobile1 == <<5, 5, 5, 0, 1, 0, 0, 0, 0, 1>>

CreatePayload(assignee) ==
    [fullname |-> "a", mobile |-> Some(Mobile1), reg_date |-> Some(0),
     assigned_to |-> assignee]

Code(prefix, n) == [prefix |-> prefix, digits |-> _format_arc(n)]

\* Identifiers a caller may name: those issued so far, one not issued yet,
\* and a lower-case spelling of the first.
CodeInputs == {Code("ARC", n) : n \in 1..(MaxLeads + 1)} \cup {Code("arc", 1)}

SearchInputs ==
    {Code("ARC", 1), Code("arc", 2), [prefix |-> "", digits |-> Mobile1],
     [prefix |-> "x", digits |-> <<7>>]}

HoldDates == {0 - HoldDays, 1 - HoldDays}

---------------------------------------------------------------------------
(* The directory as its callers use it: every handler, every caller. *)

\* Update bodies: a hold, a release, a reassignment, a body that mixes
\* permitted and privileged fields, one carrying notes, one with a bad mobile.
EmployeeUpdates ==
    {[status |-> "HOLD", hold_since |-> Some(0 - HoldDays)],
     [status |-> "ACTIVE"],
     [assigned_to |-> Some(3)],
     [status |-> "HOLD", hold_since |-> Some(0 - HoldDays), fullname |-> "b",
      assigned_to |-> Some(2)],
     [notes |-> <<[date |-> 0, note |-> "called"]>>, assigned_to |-> Some(2)],
     [mobile |-> Some(<<1, 2, 3>>)]}

AdminUpdates ==
    {[assigned_to |-> Some(3)],
     [status |-> "HOLD", hold_since |-> Some(0 - HoldDays), assigned_to |-> Some(2)]}

DirectoryUpdates(caller) == IF role(caller) = "admin" THEN AdminUpdates ELSE EmployeeUpdates

DirectoryFilters ==
    {[date_from |-> None, date_to |-> None, status |-> None, assigned_to_name |-> None],
     [date_from |-> None, date_to |-> None, status |-> Some("HOLD"),
      assigned_to_name |-> None],
     [date_from |-> Some(0), date_to |-> Some(0), status |-> None,
      assigned_to_name |-> None],
     [date_from |-> None, date_to |-> None, status |-> None,
      assigned_to_name |-> Some("emp")],
     [date_from |-> None, date_to |-> None, status |-> None,
      assigned_to_name |-> Some("nobody")]}

Next ==
    \/ \E caller \in Users, assignee \in {None, Some(3)} :
           Create(caller, CreatePayload(assignee), MaxLeads)
    \/ \E caller \in Users, id \in CodeInputs :
           \E payload \in DirectoryUpdates(caller) : Update(caller, id, payload)
    \/ \E caller \in Users, page \in {<<1, 0>>, <<1, 1>>, <<MaxLeads, 0>>} :
           List(caller, page[1], page[2])
    \/ \E caller \in Users, search_data \in SearchInputs : Search(caller, search_data)
    \/ \E caller \in Users, f \in DirectoryFilters :
           Filter(caller, f.date_from, f.date_to, f.status, f.assigned_to_name)
    \/ \E caller \in Users, id \in CodeInputs : Find(caller, id)
    \/ \E caller \in Users : Report(caller)

Spec == Init /\ [][Next]_vars

---------------------------------------------------------------------------
(* The lead lifecycle: status changes, the clock and the reclaim job. *)

\* Status changes with and without a hold date, a hold date alone, a status
\* outside the three values, a null status.
LifecycleUpdates(caller) ==
    IF role(caller) = "admin"
    THEN {[status |-> "HOLD"], [status |-> "CLOSED"]}
    ELSE {[status |-> "HOLD"],
          [hold_since |-> Some(1 - HoldDays)],
          [status |-> "ACTIVE"],
          [status |-> "CLOSED", hold_since |-> Some(0 - HoldDays)],
          [status |-> "PENDING"],
          [status |-> NullStr]}
         \cup {[status |-> "HOLD", hold_since |-> Some(d)] : d \in HoldDates}

StoredCodes == {Code("ARC", n) : n \in 1..MaxLeads}

NextLife ==
    \/ Create(2, CreatePayload(None), MaxLeads)
    \/ \E caller \in {Admin, 2}, id \in StoredCodes :
           \E payload \in LifecycleUpdates(caller) : Update(caller, id, payload)
    \/ \E authorized \in BOOLEAN : Reclaim(authorized)
    \/ Tick

SpecLife == Init /\ [][NextLife]_vars

\* The scheduler calls the job every day, and days pass.
SpecLive == Init /\ [][NextLife]_vars /\ WF_vars(Reclaim(TRUE)) /\ WF_vars(Tick)

---------------------------------------------------------------------------
(* Sequential allocation: one caller creates lead after lead. *)

NextAlloc == Create(2, CreatePayload(None), MaxSeqCreates)

SpecAlloc == Init /\ [][NextAlloc]_vars

\* C1: from an empty store and without concurrency, the n-th create succeeds
\* and stores the identifier that encodes n, for every n: the stored
\* identifiers are ARC001, ARC002, ... in insertion order, without gap or
\* duplicate, and no create is answered with a failure.
C1_SequentialIdentifiers ==
    /\ resp.op = "create" => resp.code = 200
    /\ \A i \in 1..Len(customers) : customers[i].customer_id = _format_arc(i)

---------------------------------------------------------------------------
(* Concurrent allocation: create requests interleave between reading the
   greatest identifier and committing the new row. *)

NextConc ==
    \E r \in 1..NumRequests :
        \/ \E caller \in Employees : BeginCreate(r, caller, CreatePayload(None))
        \/ CommitCreate(r)

SpecConc == Init /\ [][NextConc]_vars

Allocated(r) == reqs[r].pc \in {"built", "done"}
IdOf(r) == Val(reqs[r].customer).customer_id

\* C2: under every interleaving of concurrent creates, no two creators are
\* handed the same identifier by the allocator.
C2_NoSharedIdentifier ==
    \A r1, r2 \in 1..NumRequests :
        (r1 # r2 /\ Allocated(r1) /\ Allocated(r2)) => IdOf(r1) # IdOf(r2)

---------------------------------------------------------------------------
(* Properties of the lifecycle (checked under SpecLife and SpecLive) *)

Statuses == {"ACTIVE", "HOLD", "CLOSED"}

\* C3: in every reachable state every lead has status HOLD exactly when its
\* hold_since is set.
C3_HoldIffHoldSince ==
    \A i \in 1..Len(customers) :
        (customers[i].status = "HOLD") <=> ~IsNone(customers[i].hold_since)

Hold(i) == i <= Len(customers) /\ customers[i].status = "HOLD"

Released(i) ==
    /\ i <= Len(customers)
    /\ customers[i].status = "ACTIVE"
    /\ IsNone(customers[i].hold_since)

UpdatedNow(i) ==
    /\ i <= Len(customers)
    /\ req.op = "update" /\ resp.code = 200
    /\ req.args.customer_id.digits = customers[i].customer_id

\* C6: with the reclaim job run every day, a lead in HOLD that gets no
\* further update is eventually ACTIVE again with hold_since cleared.
C6_HoldEventuallyReleased ==
    \A i \in 1..MaxLeads : [](Hold(i) => <>(Released(i) \/ UpdatedNow(i)))

\* C7: a second run of the reclaim job on the same day changes nothing the
\* first run left: neither the handler nor the statement it is written to
\* execute.
C7_ReclaimIdempotent ==
    /\ \A authorized \in BOOLEAN :
          LET once == auto_activate(customers, today, authorized).rows
          IN  auto_activate(once, today, authorized).rows = once
    /\ LET once == reclaim_query(customers, today)
       IN  reclaim_query(once, today) = once

\* The job has just run, authorized, on a table holding two expired holds.
C7_Witness ==
    /\ req.op = "auto_activate" /\ req.args.authorized
    /\ Len(customers) >= 2
    /\ Expired(customers[1], today) /\ Expired(customers[2], today)

TargetRows(id) ==
    Select(customers, LAMBDA c : id.prefix = "ARC" /\ c.customer_id = id.digits)

\* C8: an update whose status is none of ACTIVE, HOLD, CLOSED is refused
\* with a validation error, so no stored status is ever outside those three.
C8_StatusValidated ==
    /\ \A i \in 1..Len(customers) : customers[i].status \in Statuses
    /\ (/\ req.op = "update"
        /\ "status" \in DOMAIN req.args.payload
        /\ req.args.payload.status \notin Statuses \cup {NullStr}
        /\ Len(TargetRows(req.args.customer_id)) > 0)
       => resp.code = 422

---------------------------------------------------------------------------
(* Properties of the directory (checked under Spec) *)

IsEmployee(u) == u \in Users /\ role(u) # "admin"

\* The rows assigned to u, as a table of their own.
OwnRows(rows, u) == Rows(rows, Select(rows, LAMBDA c : c.assigned_to = Some(u)))

\* The step is a handler's: it changed the request log, the response or the table.
Handled == req' # req \/ resp' # resp \/ customers' # customers

Min(a, b) == IF a < b THEN a ELSE b

C4_ReadsScoped ==
    (req.op \in {"list", "search", "filter", "find"} /\ IsEmployee(req.caller))
    => \A k \in 1..Len(resp.body) : resp.body[k].assigned_to = Some(req.caller)

C4_AdminUnrestricted ==
    /\ (req.op = "list" /\ req.caller = Admin)
       => Len(resp.body) = Min(req.args.limit,
                               IF Len(customers) > req.args.offset
                               THEN Len(customers) - req.args.offset ELSE 0)
    /\ (req.op = "find" /\ req.caller = Admin
        /\ Upper(req.args.customer_id.prefix) = "ARC"
        /\ \E i \in 1..Len(customers) :
              customers[i].customer_id = req.args.customer_id.digits)
       => (resp.code = 200 /\ resp.body[1].customer_id = req.args.customer_id.digits)

C4_UpdateScoped ==
    (req'.op = "update" /\ IsEmployee(req'.caller))
    => \A i \in 1..Len(customers) :
          customers[i].assigned_to # Some(req'.caller) => customers'[i] = customers[i]

\* C4: whatever a non-admin caller lists, searches, filters or finds is
\* assigned to that caller, and an update by a non-admin caller leaves every
\* lead assigned to someone else as it was; an admin's list and find range
\* over every lead.
C4_AccessScoped ==
    /\ [](C4_ReadsScoped /\ C4_AdminUnrestricted)
    /\ [][C4_UpdateScoped]_vars

\* An employee listed their leads while the table also held someone else's.
C4_Witness ==
    /\ req.op = "list" /\ IsEmployee(req.caller)
    /\ Len(resp.body) >= 1
    /\ \E i \in 1..Len(customers) : customers[i].assigned_to # Some(req.caller)

\* C5: the report a non-admin caller gets is the report of the leads assigned
\* to them: leads assigned to others do not show in it.
C5_ReportScoped ==
    (req.op = "count_and_graph" /\ IsEmployee(req.caller))
    => resp = customers_count_and_graph(OwnRows(customers, req.caller),
                                        req.caller, today)

FrameFields == CustomerFields \ {"status", "hold_since"}

C9_EmployeeUpdateFrame ==
    (req'.op = "update" /\ IsEmployee(req'.caller) /\ Handled)
    => /\ Len(customers') = Len(customers)
       /\ \A i \in 1..Len(customers) : \A f \in FrameFields :
             customers'[i][f] = customers[i][f]
       /\ CustomerUpdateSchema(req'.args.payload)
          => LET permitted == Restrict(req'.args.payload,
                                       {"notes", "status", "hold_since"})
                 alone == update_customer_partial(customers, req'.caller,
                                                  req'.args.customer_id, permitted)
             IN  customers' = alone.rows /\ resp' = alone.resp

C9_ReassignedByAdminOnly ==
    \A i \in 1..Len(customers) :
        customers'[i].assigned_to # customers[i].assigned_to
        => (req'.op = "update" /\ req'.caller = Admin)

\* C9: an update by a non-admin caller changes no column but status and
\* hold_since (notes is no column), and a well-formed body is answered as if
\* it held only its notes, status and hold_since: privileged fields change
\* nothing and refuse nothing.  So assigned_to changes only in an admin's
\* update.
C9_PrivilegedFieldsDropped ==
    [][C9_EmployeeUpdateFrame /\ C9_ReassignedByAdminOnly]_vars

\* An employee's update that named another assignee was accepted and the
\* lead is still theirs.
C9_Witness ==
    /\ req.op = "update" /\ IsEmployee(req.caller)
    /\ "assigned_to" \in DOMAIN req.args.payload
    /\ req.args.payload.assigned_to # Some(req.caller)
    /\ resp.code = 200
    /\ resp.body[1].assigned_to = Some(req.caller)
    /\ resp.body[1].status = "HOLD"

OwnedBy(rows, u, digits) ==
    \E i \in 1..Len(rows) :
        rows[i].customer_id = digits /\ rows[i].assigned_to = Some(u)

StoredFor(rows, digits) == \E i \in 1..Len(rows) : rows[i].customer_id = digits

C10_FindDenied ==
    (/\ req.op = "find" /\ IsEmployee(req.caller)
     /\ ~OwnedBy(customers, req.caller, req.args.customer_id.digits))
    => /\ resp.code = 404
       /\ resp = find_customer_by_id(OwnRows(customers, req.caller), req.caller,
                                     req.args.customer_id)

C10_UpdateDenied ==
    (/\ req'.op = "update" /\ IsEmployee(req'.caller) /\ Handled
     /\ ~OwnedBy(customers, req'.caller, req'.args.customer_id.digits))
    => /\ customers' = customers
       /\ resp'.code \in {404, 422}
       /\ resp' = update_customer_partial(OwnRows(customers, req'.caller),
                                          req'.caller, req'.args.customer_id,
                                          req'.args.payload).resp

\* C10: to a non-admin caller, find and update answer an identifier of
\* someone else's lead exactly as they answer an identifier that was never
\* issued (the answer is the one the same request gets from a table without
\* the other users' leads), and change nothing.
C10_DeniedLikeMissing ==
    /\ []C10_FindDenied
    /\ [][C10_UpdateDenied]_vars

\* An employee asked for a lead that exists and is someone else's.
C10_Witness ==
    /\ req.op \in {"find", "update"} /\ IsEmployee(req.caller)
    /\ StoredFor(customers, req.args.customer_id.digits)
    /\ ~OwnedBy(customers, req.caller, req.args.customer_id.digits)
    /\ resp.code = 404

---------------------------------------------------------------------------
(* Notes *)

\* The notes kept for a lead: the value of its `notes` attribute.  The
\* table has a `note` column (a string) and no `notes`, so no row holds any.
notes_of(c) == IF "notes" \in DOMAIN c THEN c.notes ELSE <<>>

IsSuffix(n, s) == Len(n) <= Len(s) /\ SubSeq(s, Len(s) - Len(n) + 1, Len(s)) = n

\* C11: a non-admin caller can append notes to a lead of theirs: a
\* well-formed update carrying notes N on the caller's own lead is accepted
\* and leaves the lead's notes ending with N (the earlier notes followed by
\* N).
C11_NotesAppended ==
    (/\ req.op = "update" /\ IsEmployee(req.caller)
     /\ "notes" \in DOMAIN req.args.payload
     /\ CustomerUpdateSchema(req.args.payload)
     /\ req.args.customer_id.prefix = "ARC"
     /\ OwnedBy(customers, req.caller, req.args.customer_id.digits))
    => /\ resp.code = 200
       /\ \A i \in 1..Len(customers) :
             customers[i].customer_id = req.args.customer_id.digits
             => IsSuffix(req.args.payload.notes, notes_of(customers[i]))

---------------------------------------------------------------------------
(* Creation *)

\* The assignee a create by `caller` is to store.
ExpectedAssignee(caller, payload) ==
    IF caller = Admin /\ ~IsNone(payload.assigned_to) THEN payload.assigned_to
    ELSE Some(caller)

C12_CreateStep ==
    (req'.op = "create" /\ resp'.code = 200 /\ Handled)
    => /\ Len(customers') = Len(customers) + 1
       /\ SubSeq(customers', 1, Len(customers)) = customers
       /\ LET c == customers'[Len(customers')]
          IN  /\ c.status = "ACTIVE"
              /\ IsNone(c.hold_since)
              /\ c.assigned_to = ExpectedAssignee(req'.caller, req'.args.payload)
              /\ resp'.body = <<add_user_name(c)>>

\* C12: every successful create adds one lead, with status ACTIVE, no
\* hold_since, and assigned to the caller unless the caller is the admin and
\* named an assignee; a non-admin caller's lead is the caller's even when
\* the request names someone else.
C12_CreateDefaults == [][C12_CreateStep]_vars

\* An employee's create that named another user succeeded.
C12_Witness ==
    /\ req.op = "create" /\ IsEmployee(req.caller) /\ resp.code = 200
    /\ ~IsNone(req.args.payload.assigned_to)
    /\ req.args.payload.assigned_to # Some(req.caller)
    /\ customers[Len(customers)].assigned_to = Some(req.caller)

---------------------------------------------------------------------------
(* Creates in flight interleaved with updates and the reclaim job. *)

\* Update bodies: a hold, a release, an admin's body that names a new
\* identifier for the lead, and two that fail: one while its fields are
\* applied (notes), one at commit (a null status).
MixUpdates(caller) ==
    IF role(caller) = "admin"
    THEN {[customer_id |-> _format_arc(MaxLeads + 1), status |-> "CLOSED"],
          [fullname |-> "b", status |-> NullStr, assigned_to |-> Some(3)]}
    ELSE {[status |-> "HOLD", hold_since |-> Some(0 - HoldDays)],
          [status |-> "ACTIVE"],
          [notes |-> <<[date |-> 0, note |-> "called"]>>, status |-> "HOLD",
           hold_since |-> Some(0 - HoldDays)]}

NextMix ==
    \/ \E r \in 1..NumRequests : BeginCreate(r, 2, CreatePayload(None))
    \/ \E r \in 1..NumRequests : CommitCreate(r)
    \/ \E caller \in {Admin, 2} : \E payload \in MixUpdates(caller) :
           Update(caller, Code("ARC", 1), payload)
    \/ Reclaim(TRUE)

SpecMix == Init /\ [][NextMix]_vars

C13_Distinct ==
    \A i, j \in 1..Len(customers) :
        i # j => customers[i].customer_id # customers[j].customer_id

C13_Immutable ==
    /\ Len(customers') >= Len(customers)
    /\ \A i \in 1..Len(customers) :
          customers'[i].customer_id = customers[i].customer_id

\* C13: under every interleaving of creates, updates and runs of the reclaim
\* job, no two stored leads have the same identifier, and no step removes
\* a stored lead or changes its identifier.
C13_IdentifiersUniqueAndFixed ==
    /\ []C13_Distinct
    /\ [][C13_Immutable]_vars

\* A create lost the race for an identifier and was refused, and an update
\* whose body named another identifier was accepted.
C13_Witness ==
    /\ \E r \in 1..NumRequests : reqs[r].pc = "done" /\ reqs[r].code = 500
    /\ Len(customers) >= 2
    /\ req.op = "update" /\ resp.code = 200
    /\ "customer_id" \in DOMAIN req.args.payload

---------------------------------------------------------------------------
(* One run of the reclaim job (checked under SpecLife) *)

\* The table the reclaim rule prescribes: the leads in HOLD since HoldDays
\* days or more are ACTIVE with no hold_since, everything else is as it was.
Reclaimed(rows, now) ==
    [i \in 1..Len(rows) |->
        IF /\ rows[i].status = "HOLD" /\ ~IsNone(rows[i].hold_since)
           /\ Val(rows[i].hold_since) + HoldDays <= now
        THEN [rows[i] EXCEPT !.status = "ACTIVE", !.hold_since = None]
        ELSE rows[i]]

C14_ReclaimStep ==
    (req'.op = "auto_activate" /\ req'.args.authorized /\ today' = today)
    => customers' = Reclaimed(customers, today)

\* C14: one authorized run of the reclaim job releases exactly the leads in
\* HOLD whose hold_since is HoldDays days old or older (to ACTIVE, with
\* hold_since cleared), and changes nothing else.
C14_ReclaimReleasesExpired == [][C14_ReclaimStep]_vars

---------------------------------------------------------------------------
(* Leaving HOLD by an update (checked under SpecLife) *)

\* C15: after every successful update whose body sets status to ACTIVE or
\* CLOSED, the lead has that status and no hold_since, whatever it had
\* before and whatever hold_since the same body supplies.
C15_ReleaseClearsHoldSince ==
    (/\ req.op = "update" /\ resp.code = 200
     /\ "status" \in DOMAIN req.args.payload
     /\ req.args.payload.status \in {"ACTIVE", "CLOSED"})
    => /\ IsNone(resp.body[1].hold_since)
       /\ \A i \in 1..Len(customers) :
             customers[i].customer_id = req.args.customer_id.digits
             => /\ IsNone(customers[i].hold_since)
                /\ customers[i].status = req.args.payload.status

\* A lead was closed by an update that also supplied a hold date.
C15_Witness ==
    /\ req.op = "update" /\ resp.code = 200
    /\ "status" \in DOMAIN req.args.payload
    /\ req.args.payload.status = "CLOSED"
    /\ "hold_since" \in DOMAIN req.args.payload
    /\ ~IsNone(req.args.payload.hold_since)
    /\ resp.body[1].status = "CLOSED"

---------------------------------------------------------------------------
(* Failed operations (checked under SpecMix) *)

C16_FailedStep ==
    (req'.op \in {"create", "update"} /\ resp'.code # 200 /\ Handled)
    => customers' = customers

\* C16: a create or an update that is answered with a failure (a collision
\* of identifiers at commit, a failure while an update's fields are applied
\* or committed, a lead not found) leaves the table exactly as it was.
C16_FailureLeavesStore == [][C16_FailedStep]_vars

\* A create was refused at commit for its identifier, and an update of a
\* stored lead has just failed.
C16_Witness ==
    /\ \E r \in 1..NumRequests : reqs[r].pc = "done" /\ reqs[r].code = 500
    /\ req.op = "update" /\ resp.code = 500
    /\ Len(customers) >= 1

=============================================================================
